---------------------------- MODULE Spec2Model ----------------------------
(***************************************************************************)
(* A model of the ivy evaluation core: the value tower and the binary      *)
(* operator table (value package), the recursive-descent parser and its    *)
(* one-token peek buffer (parse package), and the display configuration    *)
(* (config package).                                                       *)
(*                                                                         *)
(* Values are records [t, n, e]: t is the variant, n the integer payload   *)
(* (for a BigRat the address of its *big.Rat in the heap), e the elements  *)
(* of a Vector.  A *big.Rat is a heap cell [num, den]: BigRat values share *)
(* the pointer, so the heap is what makes in-place writes observable.      *)
(***************************************************************************)
EXTENDS Integers, Sequences, FiniteSets, TLC

VARIABLES
    input,      \* the lexer's token stream (the whole file)
    pos,        \* number of tokens the lexer has delivered so far
    peekTok,    \* Parser.peekTok
    curTok,     \* Parser.curTok: most recent token Next took from the lexer
    vars,       \* Parser.vars
    heap,       \* the *big.Rat objects BigRat values point to
    last,       \* outcome of the most recent call of Line
    opName,     \* operator handed to value.Binary
    opU,        \* left operand handed to value.Binary
    opV,        \* right operand handed to value.Binary
    opOut,      \* outcome of that call of value.Binary
    format,     \* Config.format, a string as the sequence of its characters
    ratFormat,  \* Config.ratFormat
    origin,     \* Config.origin
    debug       \* Config.debug: the flags set so far (empty for the nil map)

vars_all ==
    <<input, pos, peekTok, curTok, vars, heap, last, opName, opU, opV, opOut,
      format, ratFormat, origin, debug>>

\* The fields of the Config, and its zero value.
ConfigVars == <<format, ratFormat, origin, debug>>

ZeroConfig ==
    /\ format = <<>>
    /\ ratFormat = <<>>
    /\ origin = 0
    /\ debug = <<>>

-----------------------------------------------------------------------------
(* Bounds of the model *)

\* Width of the native integer (Int); the real width is that of the platform.
IntBits == 4
\* Longest vector operand handed to Binary directly.
MaxVecLen == 3
\* Number of input lines of a session.
MaxLines == 2

MinInt == -(2 ^ (IntBits - 1))
MaxInt == (2 ^ (IntBits - 1)) - 1

-----------------------------------------------------------------------------
(* Integer helpers: what math/big and the native operators compute *)

\* Sequencing: the value v of one step, computed once, handed to the rest F
\* of the function (a local variable of the Go code).
Then(v, F(_)) == CHOOSE y \in {F(x) : x \in {v}} : TRUE

Abs(x) == IF x < 0 THEN -x ELSE x
Sign(x) == IF x < 0 THEN -1 ELSE IF x = 0 THEN 0 ELSE 1

\* Two's-complement wrap of a native result to IntBits bits.
Wrap(x) == ((x - MinInt) % (2 ^ IntBits)) + MinInt

FitsInt(x) == MinInt <= x /\ x <= MaxInt

\* Truncated quotient and remainder (big.Int.Quo / Rem, Go's / and %).
TQuo(x, y) == Sign(x) * Sign(y) * (Abs(x) \div Abs(y))
TRem(x, y) == x - y * TQuo(x, y)

\* Euclidean modulus and quotient (big.Int.Mod / Div).
EMod(x, y) == x % Abs(y)
EDiv(x, y) == Sign(y) * ((x - EMod(x, y)) \div Abs(y))

RECURSIVE IntExp(_, _)
IntExp(x, y) == IF y <= 0 THEN 1 ELSE x * IntExp(x, y - 1)

RECURSIVE GCD(_, _)
GCD(a, b) == IF b = 0 THEN a ELSE GCD(b, a % b)

\* Bitwise operators on two's-complement integers of any size.
RECURSIVE BitAnd(_, _)
BitAnd(a, b) ==
    IF a = 0 \/ b = 0 THEN 0
    ELSE IF a = -1 THEN b
    ELSE IF b = -1 THEN a
    ELSE ((a % 2) * (b % 2)) + 2 * BitAnd(a \div 2, b \div 2)

BitNot(a) == -a - 1
BitOr(a, b) == BitNot(BitAnd(BitNot(a), BitNot(b)))
BitXor(a, b) == BitAnd(BitOr(a, b), BitNot(BitAnd(a, b)))

-----------------------------------------------------------------------------
(* The value tower *)

intType == 0
bigIntType == 1
bigRatType == 2
vectorType == 3

IntV(x) == [t |-> "int", n |-> x, e |-> <<>>]
BigV(x) == [t |-> "bigint", n |-> x, e |-> <<>>]
RatV(ref) == [t |-> "bigrat", n |-> ref, e |-> <<>>]
VecV(elems) == [t |-> "vector", n |-> 0, e |-> elems]
NoVal == [t |-> "nil", n |-> 0, e |-> <<>>]

zero == IntV(0)
one == IntV(1)

whichType(v) ==
    CASE v.t = "int" -> intType
      [] v.t = "bigint" -> bigIntType
      [] v.t = "bigrat" -> bigRatType
      [] OTHER -> vectorType

\* Outcome of an operation: the heap after it, the value, the panic message.
Ok(h, v) == [h |-> h, v |-> v, err |-> ""]
Fail(h, msg) == [h |-> h, v |-> NoVal, err |-> msg]

\* big.NewRat / SetFrac: lowest terms, positive denominator.
NormRat(a, b) ==
    LET g == GCD(Abs(a), Abs(b))
        s == IF b < 0 THEN -1 ELSE 1
    IN [num |-> s * (a \div g), den |-> s * (b \div g)]

\* A new BigRat: a fresh heap cell.
NewRat(h, cell) == Ok(Append(h, cell), RatV(Len(h) + 1))

bigInt64(x) == BigV(x)

bigRatTwoInt64s(h, x, y) ==
    IF y = 0 THEN Fail(h, "zero denominator in rational")
    ELSE NewRat(h, NormRat(x, y))

bigRatInt64(h, x) == bigRatTwoInt64s(h, x, 1)

\* The value an observer reads: BigRat pointers followed into the heap.
RECURSIVE Sem(_, _)
Sem(h, v) ==
    CASE v.t = "bigrat" -> [t |-> "bigrat", n |-> h[v.n].num, d |-> h[v.n].den, e |-> <<>>]
      [] v.t = "vector" -> [t |-> "vector", n |-> 0, d |-> 1,
                            e |-> [i \in 1..Len(v.e) |-> Sem(h, v.e[i])]]
      [] OTHER -> [t |-> v.t, n |-> v.n, d |-> 1, e |-> <<>>]

\* shrink leaving every result at the rank it was computed at.
shrinkNone(h, v) == v

\* shrink: the lowest rank that holds the value exactly.
shrink(h, v) ==
    CASE v.t = "bigint" -> IF FitsInt(v.n) THEN IntV(v.n) ELSE v
      [] v.t = "bigrat" ->
            IF h[v.n].den = 1
            THEN (IF FitsInt(h[v.n].num) THEN IntV(h[v.n].num) ELSE BigV(h[v.n].num))
            ELSE v
      [] OTHER -> v

\* ToType: promotion to a rank; a value already of that rank is returned
\* itself (Vector.ToType returns v), so a BigRat keeps its pointer.
ToType(h, v, which) ==
    LET from == whichType(v) IN
    IF v.t = "nil" \/ which < from THEN Fail(h, "bad conversion")
    ELSE IF which = from THEN Ok(h, v)
    ELSE IF which = vectorType THEN Ok(h, VecV(<<v>>))
    ELSE IF which = bigRatType THEN bigRatInt64(h, v.n)
    ELSE Ok(h, bigInt64(v.n))

-----------------------------------------------------------------------------
(* Type-selection rules *)

binaryArithType(t1, t2) == IF t1 > t2 THEN t1 ELSE t2

\* divType without the promotion of an Int left operand.
divTypeNoPromotion(t1, t2) == binaryArithType(t1, t2)

divType(t1, t2) == binaryArithType(IF t1 = intType THEN bigIntType ELSE t1, t2)

rationalType(t1, t2) == binaryArithType(IF t1 < bigRatType THEN bigRatType ELSE t1, t2)

-----------------------------------------------------------------------------
(* Helpers shared by the per-rank implementations *)

\* The *big.Int method handed to binaryBigIntOp, by name.
BigIntMethod(m, x, y) ==
    CASE m = "Add" -> x + y
      [] m = "Sub" -> x - y
      [] m = "Mul" -> x * y
      [] m = "Quo" -> TQuo(x, y)
      [] m = "Rem" -> TRem(x, y)
      [] m = "Div" -> EDiv(x, y)
      [] m = "Mod" -> EMod(x, y)
      [] m = "And" -> BitAnd(x, y)
      [] m = "Or" -> BitOr(x, y)
      [] m = "Xor" -> BitXor(x, y)
      [] m = "bigIntPow" -> IntExp(x, y)

\* The *big.Rat method handed to binaryBigRatOp, by name.
BigRatMethod(m, a, b) ==
    CASE m = "Add" -> NormRat(a.num * b.den + b.num * a.den, a.den * b.den)
      [] m = "Sub" -> NormRat(a.num * b.den - b.num * a.den, a.den * b.den)
      [] m = "Mul" -> NormRat(a.num * b.num, a.den * b.den)
      [] m = "Quo" -> NormRat(a.num * b.den, a.den * b.num)

\* big.Rat.Cmp
RatCmp(a, b) == Sign(a.num * b.den - b.num * a.den)

binaryBigIntOp(h, u, m, v) == Ok(h, shrink(h, bigInt64(BigIntMethod(m, u.n, v.n))))

binaryBigRatOp(h, u, m, v) ==
    LET z == NewRat(h, BigRatMethod(m, h[u.n], h[v.n]))
    IN Ok(z.h, shrink(z.h, z.v))

toInt(b) == IF b THEN one ELSE zero

\* shiftCount: the count as a native unsigned integer, or -1 for a panic.
shiftCount(h, x) ==
    LET reduced == shrink(h, x) IN
    IF reduced.t # "int" THEN [c |-> -1, err |-> "illegal shift count type"]
    ELSE IF reduced.n < 0 \/ reduced.n >= MaxInt THEN [c |-> -1, err |-> "illegal shift count"]
    ELSE [c |-> reduced.n, err |-> ""]

sameLength(u, v) == Len(u.e) = Len(v.e)

RECURSIVE Binary(_, _, _, _)

\* The loop of binaryVectorOp: element k onwards, in ascending order; su and
\* sv say whether the side is the broadcast (length-1) operand.
RECURSIVE VectorLoop(_, _, _, _, _, _, _, _)
VectorLoop(h, u, op, v, k, n, mode, acc) ==
    IF k > n THEN Ok(h, VecV(acc))
    ELSE Then(IF mode = "left1" THEN u.e[1] ELSE u.e[k], LAMBDA x :
         Then(IF mode = "right1" THEN v.e[1] ELSE v.e[k], LAMBDA y :
         Then(Binary(h, x, op, y), LAMBDA r :
             IF r.err # "" THEN Fail(r.h, r.err)
             ELSE Then(Append(acc, r.v), LAMBDA w :
                      VectorLoop(r.h, u, op, v, k + 1, n, mode, w)))))

\* binaryVectorOp pairing the elements of vectors of different lengths up to
\* the shorter one.
binaryVectorOpShorter(h, u, op, v) ==
    IF Len(u.e) = 1 THEN VectorLoop(h, u, op, v, 1, Len(v.e), "left1", <<>>)
    ELSE IF Len(v.e) = 1 THEN VectorLoop(h, u, op, v, 1, Len(u.e), "right1", <<>>)
    ELSE VectorLoop(h, u, op, v, 1, IF Len(u.e) < Len(v.e) THEN Len(u.e) ELSE Len(v.e),
                    "both", <<>>)

binaryVectorOp(h, u, op, v) ==
    IF Len(u.e) = 1 THEN VectorLoop(h, u, op, v, 1, Len(v.e), "left1", <<>>)
    ELSE IF Len(v.e) = 1 THEN VectorLoop(h, u, op, v, 1, Len(u.e), "right1", <<>>)
    ELSE IF ~sameLength(u, v) THEN Fail(h, "length mismatch")
    ELSE VectorLoop(h, u, op, v, 1, Len(u.e), "both", <<>>)

-----------------------------------------------------------------------------
(* The per-rank implementations of the binary operators.  Each is called   *)
(* with both operands already converted to rank `which`; a rank without an *)
(* arm is a nil entry of the operator's fn table (see fnDefined).          *)

add(h, which, u, v) ==
    CASE which = intType -> Ok(h, IntV(Wrap(u.n + v.n)))
      [] which = bigIntType -> binaryBigIntOp(h, u, "Add", v)
      [] which = bigRatType -> binaryBigRatOp(h, u, "Add", v)
      [] which = vectorType -> binaryVectorOp(h, u, "+", v)

sub(h, which, u, v) ==
    CASE which = intType -> Ok(h, IntV(Wrap(u.n - v.n)))
      [] which = bigIntType -> binaryBigIntOp(h, u, "Sub", v)
      [] which = bigRatType -> binaryBigRatOp(h, u, "Sub", v)
      [] which = vectorType -> binaryVectorOp(h, u, "-", v)

mul(h, which, u, v) ==
    CASE which = intType -> Ok(h, IntV(Wrap(u.n * v.n)))
      [] which = bigIntType -> binaryBigIntOp(h, u, "Mul", v)
      [] which = bigRatType -> binaryBigRatOp(h, u, "Mul", v)
      [] which = vectorType -> binaryVectorOp(h, u, "*", v)

quo(h, which, u, v) ==
    CASE which = bigRatType ->
            IF h[v.n].num = 0 THEN Fail(h, "division by zero")
            ELSE binaryBigRatOp(h, u, "Quo", v)
      [] which = vectorType -> binaryVectorOp(h, u, "/", v)

idiv(h, which, u, v) ==
    CASE which = intType ->
            IF v.n = 0 THEN Fail(h, "division by zero")
            ELSE Ok(h, IntV(Wrap(TQuo(u.n, v.n))))
      [] which = bigIntType ->
            IF v.n = 0 THEN Fail(h, "division by zero")
            ELSE binaryBigIntOp(h, u, "Quo", v)
      [] which = vectorType -> binaryVectorOp(h, u, "idiv", v)

imod(h, which, u, v) ==
    CASE which = intType ->
            IF v.n = 0 THEN Fail(h, "modulo by zero")
            ELSE Ok(h, IntV(Wrap(TRem(u.n, v.n))))
      [] which = bigIntType ->
            IF v.n = 0 THEN Fail(h, "modulo by zero")
            ELSE binaryBigIntOp(h, u, "Rem", v)
      [] which = vectorType -> binaryVectorOp(h, u, "imod", v)

div(h, which, u, v) ==
    CASE which = bigIntType ->
            IF v.n = 0 THEN Fail(h, "division by zero")
            ELSE binaryBigIntOp(h, u, "Div", v)
      [] which = vectorType -> binaryVectorOp(h, u, "div", v)

mod(h, which, u, v) ==
    CASE which = bigIntType ->
            IF v.n = 0 THEN Fail(h, "modulo by zero")
            ELSE binaryBigIntOp(h, u, "Mod", v)
      [] which = vectorType -> binaryVectorOp(h, u, "mod", v)

\* pow at BigRat rank works on the operands' own numerator and denominator:
\* Num() and Denom() return references into the *big.Rat, and Exp writes its
\* receiver.  exp stays a reference to the exponent's numerator throughout.
powBigRat(h, u, v) ==
    IF h[v.n].num = 0 THEN Ok(h, one)
    ELSE IF h[v.n].num < 0 THEN Fail(h, "negative exponent not implemented")
    ELSE LET h1 == [h EXCEPT ![u.n].num = IntExp(h[u.n].num, h[v.n].num)]
             h2 == [h1 EXCEPT ![u.n].den = IntExp(h1[u.n].den, h1[v.n].num)]
         IN NewRat(h2, NormRat(h2[u.n].num, h2[u.n].den))

pow(h, which, u, v) ==
    CASE which = bigIntType ->
            IF v.n = 0 THEN Ok(h, one)
            ELSE IF v.n < 0 THEN Fail(h, "negative exponent not implemented")
            ELSE binaryBigIntOp(h, u, "bigIntPow", v)
      [] which = bigRatType -> powBigRat(h, u, v)
      [] which = vectorType -> binaryVectorOp(h, u, "**", v)

and(h, which, u, v) ==
    CASE which = intType -> Ok(h, IntV(BitAnd(u.n, v.n)))
      [] which = bigIntType -> binaryBigIntOp(h, u, "And", v)
      [] which = vectorType -> binaryVectorOp(h, u, "&", v)

or(h, which, u, v) ==
    CASE which = intType -> Ok(h, IntV(BitOr(u.n, v.n)))
      [] which = bigIntType -> binaryBigIntOp(h, u, "Or", v)
      [] which = vectorType -> binaryVectorOp(h, u, "|", v)

xor(h, which, u, v) ==
    CASE which = intType -> Ok(h, IntV(BitXor(u.n, v.n)))
      [] which = bigIntType -> binaryBigIntOp(h, u, "Xor", v)
      [] which = vectorType -> binaryVectorOp(h, u, "^", v)

lsh(h, which, u, v) ==
    CASE which = bigIntType ->
            LET sc == shiftCount(h, v) IN
            IF sc.err # "" THEN Fail(h, sc.err)
            ELSE Ok(h, shrink(h, bigInt64(u.n * (2 ^ sc.c))))
      [] which = vectorType -> binaryVectorOp(h, u, "<<", v)

rsh(h, which, u, v) ==
    CASE which = bigIntType ->
            LET sc == shiftCount(h, v) IN
            IF sc.err # "" THEN Fail(h, sc.err)
            ELSE Ok(h, shrink(h, bigInt64(u.n \div (2 ^ sc.c))))
      [] which = vectorType -> binaryVectorOp(h, u, ">>", v)

eq(h, which, u, v) ==
    CASE which = intType -> Ok(h, toInt(u.n = v.n))
      [] which = bigIntType -> Ok(h, toInt(u.n = v.n))
      [] which = bigRatType -> Ok(h, toInt(RatCmp(h[u.n], h[v.n]) = 0))
      [] which = vectorType -> binaryVectorOp(h, u, "==", v)

ne(h, which, u, v) ==
    CASE which = intType -> Ok(h, toInt(u.n # v.n))
      [] which = bigIntType -> Ok(h, toInt(u.n # v.n))
      [] which = bigRatType -> Ok(h, toInt(RatCmp(h[u.n], h[v.n]) # 0))
      [] which = vectorType -> binaryVectorOp(h, u, "!=", v)

lt(h, which, u, v) ==
    CASE which = intType -> Ok(h, toInt(u.n < v.n))
      [] which = bigIntType -> Ok(h, toInt(u.n < v.n))
      [] which = bigRatType -> Ok(h, toInt(RatCmp(h[u.n], h[v.n]) < 0))
      [] which = vectorType -> binaryVectorOp(h, u, "<", v)

le(h, which, u, v) ==
    CASE which = intType -> Ok(h, toInt(u.n <= v.n))
      [] which = bigIntType -> Ok(h, toInt(u.n <= v.n))
      [] which = bigRatType -> Ok(h, toInt(RatCmp(h[u.n], h[v.n]) <= 0))
      [] which = vectorType -> binaryVectorOp(h, u, "<=", v)

gt(h, which, u, v) ==
    CASE which = intType -> Ok(h, toInt(u.n > v.n))
      [] which = bigIntType -> Ok(h, toInt(u.n > v.n))
      [] which = bigRatType -> Ok(h, toInt(RatCmp(h[u.n], h[v.n]) > 0))
      [] which = vectorType -> binaryVectorOp(h, u, ">", v)

ge(h, which, u, v) ==
    CASE which = intType -> Ok(h, toInt(u.n >= v.n))
      [] which = bigIntType -> Ok(h, toInt(u.n >= v.n))
      [] which = bigRatType -> Ok(h, toInt(RatCmp(h[u.n], h[v.n]) >= 0))
      [] which = vectorType -> binaryVectorOp(h, u, ">=", v)

min(h, which, u, v) ==
    CASE which = intType -> Ok(h, IF u.n < v.n THEN u ELSE v)
      [] which = bigIntType -> Ok(h, IF u.n < v.n THEN u ELSE v)
      [] which = bigRatType -> Ok(h, IF RatCmp(h[u.n], h[v.n]) < 0 THEN u ELSE v)
      [] which = vectorType -> binaryVectorOp(h, u, "min", v)

max(h, which, u, v) ==
    CASE which = intType -> Ok(h, IF u.n > v.n THEN u ELSE v)
      [] which = bigIntType -> Ok(h, IF u.n > v.n THEN u ELSE v)
      [] which = bigRatType -> Ok(h, IF RatCmp(h[u.n], h[v.n]) > 0 THEN u ELSE v)
      [] which = vectorType -> binaryVectorOp(h, u, "min", v)

\* The keys of the binaryOps map.
binaryOps ==
    {"+", "-", "*", "/", "idiv", "imod", "div", "mod", "**", "&", "|", "^",
     "<<", ">>", "==", "!=", "<", "<=", ">", ">=", "min", "max"}

\* op.whichType for the operator named op.
opWhichType(op, t1, t2) ==
    CASE op = "/" -> rationalType(t1, t2)
      [] op \in {"div", "mod", "**", "<<", ">>"} -> divType(t1, t2)
      [] OTHER -> binaryArithType(t1, t2)

\* op.fn[which] # nil
fnDefined(op, which) ==
    CASE which = vectorType -> TRUE
      [] op = "/" -> which = bigRatType
      [] op \in {"idiv", "imod", "&", "|", "^"} -> which \in {intType, bigIntType}
      [] op \in {"div", "mod", "<<", ">>"} -> which = bigIntType
      [] op = "**" -> which \in {bigIntType, bigRatType}
      [] OTHER -> TRUE

\* op.fn[which](u, v)
opFn(op, h, which, u, v) ==
    CASE op = "+" -> add(h, which, u, v)
      [] op = "-" -> sub(h, which, u, v)
      [] op = "*" -> mul(h, which, u, v)
      [] op = "/" -> quo(h, which, u, v)
      [] op = "idiv" -> idiv(h, which, u, v)
      [] op = "imod" -> imod(h, which, u, v)
      [] op = "div" -> div(h, which, u, v)
      [] op = "mod" -> mod(h, which, u, v)
      [] op = "**" -> pow(h, which, u, v)
      [] op = "&" -> and(h, which, u, v)
      [] op = "|" -> or(h, which, u, v)
      [] op = "^" -> xor(h, which, u, v)
      [] op = "<<" -> lsh(h, which, u, v)
      [] op = ">>" -> rsh(h, which, u, v)
      [] op = "==" -> eq(h, which, u, v)
      [] op = "!=" -> ne(h, which, u, v)
      [] op = "<" -> lt(h, which, u, v)
      [] op = "<=" -> le(h, which, u, v)
      [] op = ">" -> gt(h, which, u, v)
      [] op = ">=" -> ge(h, which, u, v)
      [] op = "min" -> min(h, which, u, v)
      [] op = "max" -> max(h, which, u, v)

\* The rank Binary evaluates op at for operands u and v.
BinaryRank(u, op, v) == opWhichType(op, whichType(u), whichType(v))

\* value.Binary: look the operator up, pick the rank, convert both operands,
\* call the rank's implementation, shrink the result.
Binary(h, u, op, v) ==
    IF op \notin binaryOps THEN Fail(h, "unknown operator")
    ELSE Then(BinaryRank(u, op, v), LAMBDA which :
         IF ~fnDefined(op, which) THEN Fail(h, "unsupported operation")
         ELSE Then(ToType(h, u, which), LAMBDA cu :
              Then(ToType(cu.h, v, which), LAMBDA cv :
                  IF cu.err # "" THEN Fail(cu.h, cu.err)
                  ELSE IF cv.err # "" THEN Fail(cv.h, cv.err)
                  ELSE Then(opFn(op, cv.h, which, cu.v, cv.v), LAMBDA r :
                       IF r.err # "" THEN r ELSE Ok(r.h, shrink(r.h, r.v))))))

-----------------------------------------------------------------------------
(* Direct calls of value.Binary: the operands are drawn from the pools      *)
(* below, over a heap that holds the pool's rationals.                      *)

\* Largest exponent applied to a base of more than one digit (TLC's
\* integers are 32 bits wide).
MaxPow == 3

\* The *big.Rat cells the pooled BigRat operands point to: 1/2, 3/2, -1/2.
RatPool == <<[num |-> 1, den |-> 2], [num |-> 3, den |-> 2], [num |-> -1, den |-> 2]>>

ScalarPool ==
    {IntV(x) : x \in {MinInt, -1, 0, 1, 2, 3, MaxInt}}
        \cup {BigV(MinInt - 1), BigV(MaxInt + 1)}
        \cup {RatV(r) : r \in 1..Len(RatPool)}

ElemPool == {IntV(0), IntV(2), RatV(1)}

\* Vectors of every length up to MaxVecLen, alternating two pooled elements.
VectorPool ==
    UNION {{VecV([i \in 1..n |-> IF i % 2 = 1 THEN a ELSE b]) : a, b \in ElemPool}
           : n \in 1..MaxVecLen}

OperandPool == ScalarPool \cup VectorPool

IsScalar(v) == v.t \in {"int", "bigint", "bigrat"}
IsInteger(v) == v.t \in {"int", "bigint"}

\* Largest magnitude of a numerator in a pooled operand.
RECURSIVE Mag(_, _)
Mag(h, v) ==
    CASE v.t = "bigrat" -> Abs(h[v.n].num)
      [] v.t = "vector" ->
            IF Len(v.e) = 0 THEN 0
            ELSE LET a == Mag(h, v.e[1])
                     b == Mag(h, VecV(Tail(v.e)))
                 IN IF a > b THEN a ELSE b
      [] OTHER -> Abs(v.n)

\* Calls whose exact result TLC's integers can hold: a power has a
\* small exponent (at most 2 over a vector base, whose elements may share a
\* cell that every element's power raises again), or two scalar operands and
\* a small base.
Feasible(op, u, v) ==
    op = "**" =>
        \/ Mag(RatPool, v) <= MaxPow /\ (IsScalar(u) \/ Mag(RatPool, v) <= 2)
        \/ IsScalar(u) /\ IsScalar(v) /\ Mag(RatPool, u) <= MaxPow

NoOut == [done |-> FALSE, v |-> NoVal, err |-> "", which |-> -1]

\* Operator names a caller may pass: the table's, and the parser's "[]".
OpNames == binaryOps \cup {"[]"}

Apply ==
    /\ opOut.done = FALSE
    /\ opName \in OpNames
    /\ \E r \in {Binary(heap, opU, opName, opV)} :
          /\ heap' = r.h
          /\ opOut' = [done |-> TRUE, v |-> r.v, err |-> r.err,
                       which |-> IF opName \in binaryOps
                                 THEN BinaryRank(opU, opName, opV) ELSE -1]
    /\ UNCHANGED <<input, pos, peekTok, curTok, vars, last, opName, opU, opV>>
    /\ UNCHANGED ConfigVars

-----------------------------------------------------------------------------
(* Tokens and the lexer.  A token is [type, text, n, d]: text is the        *)
(* literal text of an identifier or operator; for a Number the numeral is   *)
(* n, for a Rational it is n/d; a Number with text "bad" is a numeral the   *)
(* value parser rejects.                                                    *)

Tok(type, text, n, d) == [type |-> type, text |-> text, n |-> n, d |-> d]
EOFTok == Tok("EOF", "", 0, 0)
NL == Tok("Newline", "", 0, 0)
ErrTok == Tok("Error", "", 0, 0)
Num(x) == Tok("Number", "", x, 1)
BadNum == Tok("Number", "bad", 0, 1)
Rat(x, y) == Tok("Rational", "", x, y)
Id(name) == Tok("Identifier", name, 0, 0)
Op(sym) == Tok("Operator", sym, 0, 0)
Assign == Tok("Assign", ":=", 0, 0)
LP == Tok("LeftParen", "(", 0, 0)
RP == Tok("RightParen", ")", 0, 0)
LB == Tok("LeftBrack", "[", 0, 0)
RB == Tok("RightBrack", "]", 0, 0)

\* lexer.Next() after p tokens were delivered: EOF once the input is used up.
LexNext(p) == IF p < Len(input) THEN input[p + 1] ELSE EOFTok
LexAdvance(p) == IF p < Len(input) THEN p + 1 ELSE p

\* The parser's token state, threaded through the parsing functions.
PState(p, pk, cur) == [pos |-> p, peek |-> pk, cur |-> cur]

Next(st) ==
    IF st.peek.type # "EOF"
    THEN [st |-> [st EXCEPT !.peek = EOFTok], tok |-> st.peek]
    ELSE [st |-> [st EXCEPT !.pos = LexAdvance(st.pos), !.cur = LexNext(st.pos)],
          tok |-> LexNext(st.pos)]

Back(st, tok) == [st EXCEPT !.peek = tok]

Peek(st) ==
    IF st.peek.type # "EOF"
    THEN [st |-> st, tok |-> st.peek]
    ELSE [st |-> [st EXCEPT !.pos = LexAdvance(st.pos), !.peek = LexNext(st.pos)],
          tok |-> LexNext(st.pos)]

-----------------------------------------------------------------------------
(* Expression nodes: a Value, a Unary or a Binary *)

NoExpr == [k |-> "nil", op |-> "", v |-> NoVal, l |-> <<>>, r |-> <<>>]
Leaf(v) == [k |-> "val", op |-> "", v |-> v, l |-> <<>>, r |-> <<>>]
UnaryNode(op, right) == [k |-> "unary", op |-> op, v |-> NoVal, l |-> <<>>, r |-> <<right>>]
BinaryNode(left, op, right) ==
    [k |-> "binary", op |-> op, v |-> NoVal, l |-> <<left>>, r |-> <<right>>]

\* Outcome of a parsing function: token state, heap, node, panic message.
POk(st, h, x) == [st |-> st, h |-> h, x |-> x, err |-> ""]
PFail(st, h, msg) == [st |-> st, h |-> h, x |-> NoExpr, err |-> msg]

\* The flush loop of errorf.
RECURSIVE Flush(_)
Flush(st) ==
    IF st.cur.type # "Newline" /\ st.cur.type # "EOF"
    THEN Then(Next(st), LAMBDA n : Flush(n.st))
    ELSE st

\* Parser.errorf: flush to newline, empty the peek buffer, panic.
errorf(st, h, msg) == PFail([Flush(st) EXCEPT !.peek = EOFTok], h, msg)

-----------------------------------------------------------------------------
(* Literals *)

\* ValueString on an integer numeral: an Int when it fits, else a BigInt.
IntegerString(x) == IF FitsInt(x) THEN IntV(x) ELSE shrink(<<>>, bigInt64(x))

\* ValueString: an outcome whose err is "syntax" when the text is no number
\* (the returned error) and a panic message when the denominator is zero.
ValueString(h, tok) ==
    IF tok.text = "bad" THEN Fail(h, "syntax")
    ELSE IF tok.type = "Rational"
    THEN LET num == IntegerString(tok.n)
             den == IntegerString(tok.d)
         IN IF whichType(num) = intType /\ whichType(den) = intType
            THEN LET z == bigRatTwoInt64s(h, num.n, den.n)
                 IN IF z.err # "" THEN z ELSE Ok(z.h, shrink(z.h, z.v))
            ELSE LET rden == ToType(h, den, bigRatType)
                     rnum == ToType(rden.h, num, bigRatType)
                 IN IF rden.h[rden.v.n].num = 0
                    THEN Fail(h, "zero denominator in rational")
                    ELSE binaryBigRatOp(rnum.h, rnum.v, "Quo", rden.v)
    ELSE Ok(h, IntegerString(tok.n))

\* Parser.Number
Number(st, h, tok) ==
    Then(ValueString(h, tok), LAMBDA x :
        IF x.err = "syntax" THEN errorf(st, h, "bad number")
        ELSE IF x.err # "" THEN PFail(st, x.h, x.err)
        ELSE POk(st, x.h, Leaf(x.v)))

IsNumberType(typ) == typ = "Number" \/ typ = "Rational"

\* The loop of NumberOrVector: v holds the elements read so far.
RECURSIVE VectorTail(_, _, _)
VectorTail(st, h, v) ==
    Then(Peek(st), LAMBDA pk :
        IF ~IsNumberType(pk.tok.type) THEN POk(pk.st, h, Leaf(VecV(v)))
        ELSE Then(Next(pk.st), LAMBDA n :
             Then(Number(n.st, h, n.tok), LAMBDA x :
                 IF x.err # "" THEN x
                 ELSE Then(Append(v, x.x.v), LAMBDA w : VectorTail(x.st, x.h, w)))))

\* Parser.NumberOrVector
NumberOrVector(st, h, tok) ==
    Then(Number(st, h, tok), LAMBDA x :
        IF x.err # "" THEN x
        ELSE Then(Peek(x.st), LAMBDA pk :
             IF ~IsNumberType(pk.tok.type) THEN POk(pk.st, x.h, x.x)
             ELSE VectorTail(pk.st, x.h, <<x.x.v>>)))

-----------------------------------------------------------------------------
(* The recursive-descent parser *)

RECURSIVE Expr(_, _, _)
RECURSIVE Operand(_, _, _)
RECURSIVE index(_, _, _)

\* Expr grouping a chain of binary operators from the left instead.
RECURSIVE ExprLeftTail(_, _, _)
ExprLeftTail(st, h, left) ==
    Then(Peek(st), LAMBDA pk :
        IF pk.tok.type \in {"Newline", "EOF", "RightParen", "RightBrack"}
        THEN POk(pk.st, h, left)
        ELSE IF pk.tok.type = "Operator"
        THEN Then(Next(pk.st), LAMBDA opTok :
             Then(Next(opTok.st), LAMBDA first :
             Then(Operand(first.st, h, first.tok), LAMBDA right :
                 IF right.err # "" THEN right
                 ELSE Then(BinaryNode(left, opTok.tok.text, right.x), LAMBDA b :
                          ExprLeftTail(right.st, right.h, b)))))
        ELSE errorf(pk.st, h, "unexpected token after expression"))

ExprLeftAssoc(st, h, tok) ==
    Then(Operand(st, h, tok), LAMBDA o :
        IF o.err # "" THEN o ELSE ExprLeftTail(o.st, o.h, o.x))

\* Parser.Expr:  Operand | Operand binop Expr
Expr(st, h, tok) ==
    Then(Operand(st, h, tok), LAMBDA o :
        IF o.err # "" THEN o
        ELSE Then(Peek(o.st), LAMBDA pk :
             IF pk.tok.type \in {"Newline", "EOF", "RightParen", "RightBrack"}
             THEN POk(pk.st, o.h, o.x)
             ELSE IF pk.tok.type = "Operator"
             THEN Then(Next(pk.st), LAMBDA opTok :
                  Then(Next(opTok.st), LAMBDA first :
                  Then(Expr(first.st, o.h, first.tok), LAMBDA right :
                      IF right.err # "" THEN right
                      ELSE POk(right.st, right.h,
                               BinaryNode(o.x, opTok.tok.text, right.x)))))
             ELSE errorf(pk.st, o.h, "unexpected token after expression")))

\* Parser.Operand
Operand(st, h, tok) ==
    CASE tok.type = "Operator" ->
            Then(Next(st), LAMBDA first :
            Then(Expr(first.st, h, first.tok), LAMBDA right :
                IF right.err # "" THEN right
                ELSE POk(right.st, right.h, UnaryNode(tok.text, right.x))))
      [] tok.type = "LeftParen" ->
            Then(Next(st), LAMBDA first :
            Then(Expr(first.st, h, first.tok), LAMBDA inner :
                IF inner.err # "" THEN inner
                ELSE Then(Next(inner.st), LAMBDA close :
                     IF close.tok.type # "RightParen"
                     THEN errorf(close.st, inner.h, "expected right paren")
                     ELSE index(close.st, inner.h, inner.x))))
      [] IsNumberType(tok.type) -> NumberOrVector(st, h, tok)
      [] tok.type = "Identifier" ->
            IF vars[tok.text] = NoVal THEN errorf(st, h, "undefined")
            ELSE index(st, h, Leaf(vars[tok.text]))
      [] OTHER -> errorf(st, h, "unexpected token")

\* index accepting a single [ Expr ] group only.
indexOnce(st, h, expr) ==
    Then(Peek(st), LAMBDA pk :
        IF pk.tok.type # "LeftBrack" THEN POk(pk.st, h, expr)
        ELSE Then(Next(pk.st), LAMBDA open :
             Then(Next(open.st), LAMBDA first :
             Then(Expr(first.st, h, first.tok), LAMBDA inner :
                 IF inner.err # "" THEN inner
                 ELSE Then(Next(inner.st), LAMBDA close :
                      IF close.tok.type # "RightBrack"
                      THEN errorf(close.st, inner.h, "expected right bracket")
                      ELSE POk(close.st, inner.h, BinaryNode(expr, "[]", inner.x)))))))

\* Parser.index:  expr | expr [ expr ] | expr [ expr ] [ expr ] ...
index(st, h, expr) ==
    Then(Peek(st), LAMBDA pk :
        IF pk.tok.type # "LeftBrack" THEN POk(pk.st, h, expr)
        ELSE Then(Next(pk.st), LAMBDA open :
             Then(Next(open.st), LAMBDA first :
             Then(Expr(first.st, h, first.tok), LAMBDA inner :
                 IF inner.err # "" THEN inner
                 ELSE Then(Next(inner.st), LAMBDA close :
                      IF close.tok.type # "RightBrack"
                      THEN errorf(close.st, inner.h, "expected right bracket")
                      ELSE Then(BinaryNode(expr, "[]", inner.x), LAMBDA b :
                               index(close.st, inner.h, b)))))))

-----------------------------------------------------------------------------
(* Evaluation of a parsed line *)

unaryOps == {"-", "^"}

\* value.Unary: negation and bitwise complement, elementwise on a Vector.
RECURSIVE Unary(_, _, _)
Unary(h, op, v) ==
    IF op \notin unaryOps THEN Fail(h, "unknown operator")
    ELSE CASE v.t = "int" ->
                  Ok(h, IntV(IF op = "-" THEN Wrap(-v.n) ELSE BitNot(v.n)))
           [] v.t = "bigint" ->
                  Ok(h, shrink(h, bigInt64(IF op = "-" THEN -v.n ELSE BitNot(v.n))))
           [] v.t = "bigrat" ->
                  IF op = "-"
                  THEN NewRat(h, [num |-> -h[v.n].num, den |-> h[v.n].den])
                  ELSE Fail(h, "unsupported operation")
           [] v.t = "vector" ->
                  IF Len(v.e) = 0 THEN Ok(h, v)
                  ELSE Then(Unary(h, op, v.e[1]), LAMBDA x :
                       IF x.err # "" THEN x
                       ELSE Then(VecV(Tail(v.e)), LAMBDA tl :
                            Then(Unary(x.h, op, tl), LAMBDA rest :
                                IF rest.err # "" THEN rest
                                ELSE Ok(rest.h, VecV(<<x.v>> \o rest.v.e)))))

\* Eval of a node: a Value is itself; Unary.Eval; Binary.Eval evaluates the
\* left operand, then the right, then applies the operator.
RECURSIVE Eval(_, _)
Eval(h, x) ==
    CASE x.k = "val" -> Ok(h, x.v)
      [] x.k = "unary" ->
            Then(x.r[1], LAMBDA xr :
            Then(Eval(h, xr), LAMBDA right :
                IF right.err # "" THEN right ELSE Unary(right.h, x.op, right.v)))
      [] x.k = "binary" ->
            Then(x.l[1], LAMBDA xl :
            Then(x.r[1], LAMBDA xr :
            Then(Eval(h, xl), LAMBDA left :
                IF left.err # "" THEN left
                ELSE Then(Eval(left.h, xr), LAMBDA right :
                     IF right.err # "" THEN right
                     ELSE Binary(right.h, left.v, x.op, right.v)))))

-----------------------------------------------------------------------------
(* Parser.Line *)

\* Identifiers of the sessions; "_" is the entry Line itself maintains.
Names == {"x", "y", "_"}

\* Outcome of Line.  kind is "eof" (nil, false), "blank", "special", "value",
\* "assign" or "panic"; ret is the Value returned for display, val the Value
\* the line produced, variable the assigned name, tree the parsed expression
\* (what Tree prints under the "parse" debug flag).
LineOut(st, h, vs, kind, ret, val, variable, tree, err) ==
    [st |-> st, h |-> h, vars |-> vs, kind |-> kind, ret |-> ret, val |-> val,
     variable |-> variable, tree |-> tree, err |-> err]

LinePanic(st, h, tree, err) == LineOut(st, h, vars, "panic", NoVal, NoVal, "", tree, err)

LineNothing(st, h, kind) == LineOut(st, h, vars, kind, NoVal, NoVal, "", NoExpr, "")

\* The tail of Line once the first token of the expression is known.
LineExpr(st, h, tok, variable, isAssignment) ==
    Then(Expr(st, h, tok), LAMBDA x :
        IF x.err # "" THEN LinePanic(x.st, x.h, NoExpr, x.err)
        ELSE Then(Next(x.st), LAMBDA end :
             IF end.tok.type # "Newline" /\ end.tok.type # "EOF"
             THEN Then(errorf(end.st, x.h, "unexpected token"), LAMBDA f :
                      LinePanic(f.st, f.h, NoExpr, f.err))
             ELSE Then(Eval(x.h, x.x), LAMBDA expr :
                  IF expr.err # "" THEN LinePanic(end.st, expr.h, x.x, expr.err)
                  ELSE LET v1 == [vars EXCEPT !["_"] = expr.v]
                           v2 == IF variable # "" THEN [v1 EXCEPT ![variable] = expr.v]
                                 ELSE v1
                       IN IF isAssignment
                          THEN LineOut(end.st, expr.h, v2, "assign", NoVal, expr.v,
                                       variable, x.x, "")
                          ELSE LineOut(end.st, expr.h, v2, "value", expr.v, expr.v,
                                       variable, x.x, ""))))

\* Parser.Line.  The special commands a leading ')' introduces are handled
\* outside the files modelled; no input of the model starts a line with ')'.
Line(st, h) ==
    Then(Next(st), LAMBDA first :
        CASE first.tok.type = "EOF" -> LineNothing(first.st, h, "eof")
          [] first.tok.type = "Error" ->
                Then(errorf(first.st, h, "error token"), LAMBDA f :
                    LinePanic(f.st, f.h, NoExpr, f.err))
          [] first.tok.type = "RightParen" -> LineNothing(first.st, h, "special")
          [] first.tok.type = "Newline" -> LineNothing(first.st, h, "blank")
          [] first.tok.type = "Identifier" ->
                Then(Peek(first.st), LAMBDA pk :
                    IF pk.tok.type = "Assign"
                    THEN Then(Next(pk.st), LAMBDA asg :
                         Then(Next(asg.st), LAMBDA start :
                             LineExpr(start.st, h, start.tok, first.tok.text, TRUE)))
                    ELSE LineExpr(pk.st, h, first.tok, "", FALSE))
          [] OTHER -> LineExpr(first.st, h, first.tok, "", FALSE))

-----------------------------------------------------------------------------
(* Sessions: the parser's caller calls Line until it reports EOF *)

\* last before the first call; start is the lexer position at the call.
NoLast ==
    [kind |-> "none", ret |-> NoVal, val |-> NoVal, variable |-> "", tree |-> NoExpr,
     err |-> "", start |-> 0]

LineStep ==
    /\ last.kind # "eof"
    /\ opOut.done
    /\ \E r \in {Line(PState(pos, peekTok, curTok), heap)} :
          /\ pos' = r.st.pos
          /\ peekTok' = r.st.peek
          /\ curTok' = r.st.cur
          /\ vars' = r.vars
          /\ heap' = r.h
          /\ last' = [kind |-> r.kind, ret |-> r.ret, val |-> r.val,
                      variable |-> r.variable, tree |-> r.tree, err |-> r.err,
                      start |-> pos]
    /\ UNCHANGED <<input, opName, opU, opV, opOut>>
    /\ UNCHANGED ConfigVars

\* The lines the sessions are made of (without their Newline).
SessionLines ==
    { <<Id("x"), Assign, Rat(1, 2)>>,
      <<Id("x"), Op("**"), Num(2)>>,
      <<Id("x")>>,
      <<Num(3), Op("+"), Num(4)>>,
      <<Id("y"), Assign, Id("x")>>,
      <<Num(5), Op("idiv"), Num(0)>>,
      <<LP, Num(1)>>,
      <<Num(1), Id("x")>>,
      <<Num(1), RP>>,
      <<Op("-")>>,
      <<ErrTok, Num(1)>>,
      <<Rat(1, 0), Op("+"), Num(2)>>,
      <<>>,
      <<Id("x"), LB, Num(1)>>,
      <<BadNum, Num(1)>>,
      <<Id("y"), Assign, Id("x"), Op("**"), Num(2)>>,
      <<Id("x"), Assign, Num(1), Num(2)>>,
      <<Id("y"), Assign, Num(5), Op("idiv"), Num(0)>>,
      <<Id("x"), Op("max"), Rat(1, 3)>>,
      <<LP, Id("x"), Op("**"), Num(2), RP, Op("idiv"), Num(0)>> }

\* The token streams of n lines; the last Newline may be missing (EOF ends
\* the line then).
RECURSIVE LinesOf(_, _)
LinesOf(lines, n) ==
    IF n = 0 THEN {<<>>}
    ELSE {l \o <<NL>> \o rest : l \in lines, rest \in LinesOf(lines, n - 1)}

DropLast(s) == SubSeq(s, 1, Len(s) - 1)

Programs ==
    LET full == UNION {LinesOf(SessionLines, n) : n \in 1..MaxLines}
    IN full \cup {DropLast(s) : s \in full}

ParserInit ==
    /\ pos = 0
    /\ peekTok = EOFTok
    /\ curTok = EOFTok
    /\ vars = [n \in Names |-> NoVal]
    /\ heap = <<>>
    /\ last = NoLast
    /\ opName = ""
    /\ opU = NoVal
    /\ opV = NoVal
    /\ opOut = [NoOut EXCEPT !.done = TRUE]
    /\ ZeroConfig

Init ==
    /\ input \in Programs
    /\ ParserInit

NextSession == LineStep

Spec == Init /\ [][NextSession]_vars_all

-----------------------------------------------------------------------------
(* Single expressions: after  x := 3 4  one line of the families below *)

\* Most operands of a chain  a op b op c ...
MaxChain == 3
\* Most trailing [ Expr ] groups after an operand.
MaxIndex == 2

Definer == <<Id("x"), Assign, Num(3), Num(4), NL>>

ChainOperands == {Num(7), Num(2), Id("x")}
ChainOps == {"-", "/"}

\* The chains of n operands:  a op b op c ...
RECURSIVE Chains(_)
Chains(n) ==
    IF n = 1 THEN {<<a>> : a \in ChainOperands}
    ELSE {<<a, Op(o)>> \o rest : a \in ChainOperands, o \in ChainOps, rest \in Chains(n - 1)}

\* A chain with a prefix minus before its k-th operand.
WithMinus(c, k) == SubSeq(c, 1, 2 * k - 2) \o <<Op("-")>> \o SubSeq(c, 2 * k - 1, Len(c))

ChainLines ==
    LET plain == UNION {Chains(n) : n \in 1..MaxChain}
    IN plain \cup UNION {{WithMinus(c, k) : k \in 1..((Len(c) + 1) \div 2)} : c \in plain}

\* ( a op1 b ) op2 c
ParenLeft(a, op1, b, op2, c) == <<LP, a, Op(op1), b, RP, Op(op2), c>>
\* ( - a op1 b ) op2 c
ParenUnary(a, op1, b, op2, c) == <<LP, Op("-"), a, Op(op1), b, RP, Op(op2), c>>
\* x [ - a op1 b ]
BrackUnary(a, op1, b) == <<Id("x"), LB, Op("-"), a, Op(op1), b, RB>>

ParenLines ==
    {ParenLeft(a, o1, b, o2, c) : a \in ChainOperands, o1 \in ChainOps, b \in ChainOperands,
                                  o2 \in ChainOps, c \in ChainOperands}
        \cup {ParenUnary(a, o1, b, o2, c) : a \in ChainOperands, o1 \in ChainOps,
                                            b \in ChainOperands, o2 \in ChainOps,
                                            c \in ChainOperands}
        \cup {BrackUnary(a, o1, b) : a \in ChainOperands, o1 \in ChainOps,
                                     b \in ChainOperands}

\* Operand forms the grammar indexes, and literal forms.
ParenForms == {<<LP, Num(7), RP>>, <<LP, Id("x"), RP>>, <<LP, Num(3), Num(4), RP>>}
IdentForms == {<<Id("x")>>}
LiteralForms == {<<Num(7)>>, <<Num(1), Num(2), Num(3)>>, <<Rat(1, 2)>>}

IndexExprs == {<<Num(0)>>, <<Num(1), Op("-"), Id("x")>>}

\* The sequences of k index expressions.
IndexLists(k) == [1..k -> IndexExprs]

\* The tokens of the groups  [ e1 ] [ e2 ] ...
RECURSIVE Groups(_)
Groups(es) ==
    IF Len(es) = 0 THEN <<>> ELSE <<LB>> \o es[1] \o <<RB>> \o Groups(Tail(es))

IndexedLines(forms) ==
    UNION {{f \o Groups(es) : f \in forms, es \in IndexLists(k)} : k \in 0..MaxIndex}

IndexLines == IndexedLines(ParenForms \cup IdentForms \cup LiteralForms)

ParseLines == ChainLines \cup ParenLines \cup IndexLines

InitParse ==
    /\ input \in {Definer \o l \o <<NL>> : l \in ParseLines}
    /\ ParserInit

NextParse == LineStep

SpecParse == InitParse /\ [][NextParse]_vars_all

InitOps ==
    /\ input = <<>>
    /\ pos = 0
    /\ peekTok = EOFTok
    /\ curTok = EOFTok
    /\ vars = [n \in Names |-> NoVal]
    /\ last = NoLast
    /\ heap = RatPool
    /\ opName \in OpNames
    /\ opU \in OperandPool
    /\ opV \in OperandPool
    /\ Feasible(opName, opU, opV)
    /\ opOut = NoOut
    /\ ZeroConfig

NextOps == Apply

SpecOps == InitOps /\ [][NextOps]_vars_all

-----------------------------------------------------------------------------
(* The Config: any sequence of its setters on a zero-value Config *)

\* Longest format string handed to SetFormat.
MaxFormatLen == 3

FormatChars == {"%", "d", "x"}
FormatStrings == UNION {[1..n -> FormatChars] : n \in 0..MaxFormatLen}
DebugNames == {"parse", "types"}
Origins == {0, 1}

\* Config.Format
Format == IF format = <<>> THEN <<"%", "v">> ELSE format

\* Config.RatFormat
RatFormat == IF ratFormat = <<>> THEN <<"%", "v", "/", "%", "v">> ELSE ratFormat

\* Config.Debug: a missing key, and every key of the nil map, reads false.
Debug(s) == s \in DOMAIN debug /\ debug[s]

\* Config.Origin
Origin == origin

ParserVars == <<input, pos, peekTok, curTok, vars, heap, last, opName, opU, opV, opOut>>

\* Config.SetFormat
SetFormat(s) ==
    /\ format' = s
    /\ ratFormat' = s \o <<"/">> \o s
    /\ UNCHANGED <<origin, debug>>
    /\ UNCHANGED ParserVars

\* Config.SetDebug
SetDebug(s, state) ==
    /\ debug' = [n \in (DOMAIN debug) \cup {s} |-> IF n = s THEN state ELSE debug[n]]
    /\ UNCHANGED <<format, ratFormat, origin>>
    /\ UNCHANGED ParserVars

\* Config.SetOrigin
SetOrigin(o) ==
    /\ origin' = o
    /\ UNCHANGED <<format, ratFormat, debug>>
    /\ UNCHANGED ParserVars

CallSetFormat == \E s \in FormatStrings : SetFormat(s)
CallSetDebug == \E s \in DebugNames, state \in BOOLEAN : SetDebug(s, state)
CallSetOrigin == \E o \in Origins : SetOrigin(o)

InitConfig ==
    /\ input = <<>>
    /\ ParserInit

NextConfig == CallSetFormat \/ CallSetDebug \/ CallSetOrigin

SpecConfig == InitConfig /\ [][NextConfig]_vars_all

-----------------------------------------------------------------------------
(* Properties of value.Binary, checked under SpecOps *)

Applied == opOut.done /\ opName \in binaryOps

BothVectors == opU.t = "vector" /\ opV.t = "vector"

\* Lengths binaryVectorOp accepts: equal, or one side of length 1.
Conformable == Len(opU.e) = Len(opV.e) \/ Len(opU.e) = 1 \/ Len(opV.e) = 1

ResultLen == IF Len(opU.e) = 1 THEN Len(opV.e) ELSE Len(opU.e)

ElemU(i) == IF Len(opU.e) = 1 THEN opU.e[1] ELSE opU.e[i]
ElemV(i) == IF Len(opV.e) = 1 THEN opV.e[1] ELSE opV.e[i]

\* C2: no operator evaluation mutates its operands: after Binary returns or
\* fails, both operands read as they did before the call.
C2_OperandsUnchanged ==
    Applied => /\ Sem(heap, opU) = Sem(RatPool, opU)
               /\ Sem(heap, opV) = Sem(RatPool, opV)

\* The scalar applications of op to the elements k..n, in ascending order:
\* what each read as when it returned.
RECURSIVE ElementResults(_, _, _, _)
ElementResults(h, op, k, n) ==
    IF k > n THEN <<>>
    ELSE LET r == Binary(h, ElemU(k), op, ElemV(k))
         IN <<[err |-> r.err, v |-> Sem(r.h, r.v)]>> \o ElementResults(r.h, op, k + 1, n)

\* C5: for every operator of the table and conformable vectors u and v, the
\* result is a vector of the length of the longer side whose i-th element is
\* the same operator applied to the i-th elements.
C5_ElementwiseSameOperator ==
    (Applied /\ BothVectors /\ Conformable /\ opOut.err = "") =>
        /\ opOut.v.t = "vector"
        /\ Len(opOut.v.e) = ResultLen
        /\ \A i \in 1..ResultLen :
              LET r == ElementResults(RatPool, opName, 1, ResultLen)[i]
              IN r.err = "" /\ Sem(heap, opOut.v.e[i]) = r.v

\* The panic of the lowest failing element application of op, applied in
\* ascending index order from element k on ("" when none fails).
RECURSIVE FirstFailure(_, _, _, _)
FirstFailure(h, op, k, n) ==
    IF k > n THEN ""
    ELSE LET r == Binary(h, ElemU(k), op, ElemV(k))
         IN IF r.err # "" THEN r.err ELSE FirstFailure(r.h, op, k + 1, n)

\* C6: vectors of different lengths, neither of length 1, fail with a length
\* mismatch; a failing element application fails the whole operation with
\* the panic of the lowest failing index; a failure yields no vector.
C6_VectorFailure ==
    (Applied /\ BothVectors) =>
        /\ ~Conformable => (opOut.err = "length mismatch" /\ opOut.v = NoVal)
        /\ (Conformable /\ FirstFailure(RatPool, opName, 1, ResultLen) # "")
              => (opOut.err = FirstFailure(RatPool, opName, 1, ResultLen)
                  /\ opOut.v = NoVal)
        /\ opOut.err # "" => opOut.v = NoVal

C6_Witness ==
    /\ Applied
    /\ opName = "idiv"
    /\ opU = VecV(<<RatV(1), IntV(2)>>)
    /\ opV = VecV(<<IntV(2), IntV(0)>>)
    /\ opOut.err = "unsupported operation"

RankMax(S) == CHOOSE m \in S : \A x \in S : x <= m

\* The rank the rules of the table select, as amended for C7: the BigInt
\* floor applies to div, mod, <<, >> and **, not to idiv and imod.
SelectedRank(op, t1, t2) ==
    CASE op \in {"div", "mod", "<<", ">>", "**"} -> RankMax({bigIntType, t1, t2})
      [] op = "/" -> RankMax({bigRatType, t1, t2})
      [] OTHER -> RankMax({t1, t2})

\* The rank C7 states: idiv and imod in the division family too.
ClaimedRank(op, t1, t2) ==
    IF op \in {"idiv", "imod"} THEN RankMax({bigIntType, t1, t2})
    ELSE SelectedRank(op, t1, t2)

\* C7 (amended): div, mod, <<, >> and ** are evaluated at rank
\* max(BigInt, rank a, rank b), / at max(BigRat, rank a, rank b), and every
\* other operator, idiv and imod included, at max(rank a, rank b); so two
\* Int operands of idiv or imod are evaluated by the native implementation.
C7_TypeSelection ==
    Applied => opOut.which = SelectedRank(opName, whichType(opU), whichType(opV))

\* C7 as stated: idiv and imod never run below BigInt rank.
C7_Original ==
    Applied => opOut.which = ClaimedRank(opName, whichType(opU), whichType(opV))

C7_Witness ==
    /\ Applied
    /\ opName = "div" /\ opU = IntV(MinInt) /\ opV = IntV(-1)
    /\ opOut.which = bigIntType
    /\ opOut.v = BigV(MaxInt + 1)

\* C8: for integers a and b # 0, a = idiv(a,b)*b + imod(a,b) exactly, with
\* imod(a,b) zero or of the sign of a and smaller than b in magnitude; a zero
\* divisor is a division-by-zero (idiv) or modulo-by-zero (imod) panic.
C8_TruncatedDivisionIdentity ==
    (Applied /\ opName = "idiv" /\ IsInteger(opU) /\ IsInteger(opV)) =>
        LET m == Binary(RatPool, opU, "imod", opV) IN
        IF opV.n = 0
        THEN opOut.err = "division by zero" /\ m.err = "modulo by zero"
        ELSE /\ opOut.err = "" /\ m.err = ""
             /\ IsInteger(opOut.v) /\ IsInteger(m.v)
             /\ opU.n = opOut.v.n * opV.n + m.v.n
             /\ (m.v.n = 0 \/ Sign(m.v.n) = Sign(opU.n))
             /\ Abs(m.v.n) < Abs(opV.n)

\* Minimal representation of a scalar: no BigInt that fits the native
\* integer, no BigRat of denominator 1.
Minimal(h, v) ==
    /\ v.t = "bigint" => ~FitsInt(v.n)
    /\ v.t = "bigrat" => h[v.n].den # 1

PowAtBigRat ==
    /\ Applied /\ opName = "**"
    /\ IsScalar(opU) /\ IsScalar(opV)
    /\ opOut.which = bigRatType

\* C11: whenever ** is evaluated at BigRat rank its exponent is integral, and
\* for a non-negative exponent the value returned is exactly the base raised
\* to the exponent.
C11_PowExponentIntegral ==
    PowAtBigRat =>
        LET b == Sem(RatPool, opU)
            e == Sem(RatPool, opV)
            r == Sem(heap, opOut.v)
        IN /\ e.d = 1
           /\ (e.n >= 0 /\ opOut.err = "") =>
                 [num |-> r.n, den |-> r.d] = NormRat(IntExp(b.n, e.n), IntExp(b.d, e.n))

-----------------------------------------------------------------------------
(* Properties of the parser, checked under Spec *)

\* Number of tokens up to and including the first Newline after the first p
\* tokens: where the line that starts after p tokens ends.
RECURSIVE LineEnd(_)
LineEnd(p) ==
    IF p >= Len(input) THEN Len(input)
    ELSE IF input[p + 1].type = "Newline" THEN p + 1
    ELSE LineEnd(p + 1)

\* C1: when a line fails, the parser has consumed exactly the tokens of that
\* line up to and including its Newline (or EOF): the peek buffer is empty
\* and the lexer stands at the first token of the following line.
C1_FailedLineConsumedExactly ==
    last.kind = "panic" => (peekTok.type = "EOF" /\ pos = LineEnd(last.start))


\* What the environment reads as: every entry with its pointers followed.
Env(h, vs) == [n \in Names |-> Sem(h, vs[n])]

\* C3: after a line evaluates, "_" is the value it produced; an assignment
\* also binds its name to it and returns nothing for display; a bare
\* expression returns the value and changes no entry but "_"; blank lines
\* and EOF change no entry.
C3_LineUpdatesEnvironment ==
    [][ /\ last'.kind \in {"value", "assign"} =>
              Sem(heap', vars'["_"]) = Sem(heap', last'.val)
        /\ last'.kind = "assign" =>
              /\ Sem(heap', vars'[last'.variable]) = Sem(heap', last'.val)
              /\ last'.ret = NoVal
        /\ last'.kind = "value" =>
              /\ last'.ret = last'.val
              /\ \A n \in Names \ {"_"} : Env(heap', vars')[n] = Env(heap, vars)[n]
        /\ last'.kind \in {"blank", "eof"} => Env(heap', vars') = Env(heap, vars)
      ]_vars_all

\* C12: a line that fails leaves the environment as it was: no entry is
\* added or rebound, and every entry reads as it did before the line.
C12_FailedLineKeepsEnvironment ==
    [][ last'.kind = "panic" => Env(heap', vars') = Env(heap, vars) ]_vars_all

-----------------------------------------------------------------------------
(* Properties of the grammar, checked under SpecParse *)

\* The tokens of the line that starts after p tokens, without its Newline.
LineTokens(p) ==
    LET e == LineEnd(p) IN
    IF e > p /\ input[e].type = "Newline" THEN SubSeq(input, p + 1, e - 1)
    ELSE SubSeq(input, p + 1, e)

\* The line parsed by the most recent call, when it is the line after Definer.
ParsedLine == LineTokens(last.start)
AfterDefiner == last.start = Len(Definer) /\ last.kind \in {"value", "panic"}

\* The node of a single operand token.
LeafOf(tok) ==
    IF tok.type = "Identifier" THEN Leaf(vars[tok.text]) ELSE Leaf(IntegerString(tok.n))

\* The reading the grammar gives a line of single-token operands and
\* operators: an operator in operand position is a prefix operator over all
\* that follows, a binary operator has all that follows as its right side.
RECURSIVE RightNest(_)
RightNest(ts) ==
    IF ts[1].type = "Operator" THEN UnaryNode(ts[1].text, RightNest(Tail(ts)))
    ELSE IF Len(ts) = 1 THEN LeafOf(ts[1])
    ELSE BinaryNode(LeafOf(ts[1]), ts[2].text, RightNest(SubSeq(ts, 3, Len(ts))))

\* The outcome of the most recent line is that of evaluating node x.
EvaluatesAs(x) ==
    LET r == Eval(<<>>, x) IN
    /\ last.err = r.err
    /\ Sem(heap, last.val) = Sem(r.h, r.v)

\* C4: binary operators are right-associative at a single precedence level:
\* a op1 b op2 c is parsed and evaluated as a op1 (b op2 c), for chains of
\* any length; a prefix operator takes the whole expression to its right,
\* up to the closing paren or bracket or the end of the line; parentheses
\* group differently.
C4_RightAssociative ==
    AfterDefiner =>
        /\ ParsedLine \in ChainLines =>
              (last.tree = RightNest(ParsedLine) /\ EvaluatesAs(RightNest(ParsedLine)))
        /\ \A a, b, c \in ChainOperands, o1, o2 \in ChainOps :
              /\ ParsedLine = <<a, Op(o1), b, Op(o2), c>> =>
                    LET bc == Binary(<<>>, LeafOf(b).v, o2, LeafOf(c).v)
                        abc == Binary(bc.h, LeafOf(a).v, o1, bc.v)
                    IN IF bc.err # "" THEN last.err = bc.err
                       ELSE last.err = abc.err /\ Sem(heap, last.val) = Sem(abc.h, abc.v)
              /\ ParsedLine = ParenLeft(a, o1, b, o2, c) =>
                    last.tree = BinaryNode(BinaryNode(LeafOf(a), o1, LeafOf(b)), o2, LeafOf(c))
              /\ ParsedLine = ParenUnary(a, o1, b, o2, c) =>
                    last.tree = BinaryNode(UnaryNode("-", BinaryNode(LeafOf(a), o1, LeafOf(b))),
                                           o2, LeafOf(c))
              /\ ParsedLine = BrackUnary(a, o1, b) =>
                    last.tree = BinaryNode(LeafOf(Id("x")), "[]",
                                           UnaryNode("-", BinaryNode(LeafOf(a), o1, LeafOf(b))))

\* 7 - 2 - 2 is 7 - (2 - 2).
C4_Witness ==
    /\ AfterDefiner
    /\ ParsedLine = <<Num(7), Op("-"), Num(2), Op("-"), Num(2)>>
    /\ last.kind = "value"
    /\ last.ret = IntV(7)

\* The node of an operand form.
FormNode(f) ==
    IF f[1].type = "LeftParen"
    THEN (IF Len(f) = 3 THEN LeafOf(f[2])
          ELSE Leaf(VecV([i \in 1..(Len(f) - 2) |-> IntegerString(f[i + 1].n)])))
    ELSE LeafOf(f[1])

\* The node of  operand [ e1 ] [ e2 ] ... : indexing nodes chained from the left.
RECURSIVE IndexChain(_, _)
IndexChain(x, es) ==
    IF Len(es) = 0 THEN x
    ELSE IndexChain(BinaryNode(x, "[]", RightNest(es[1])), Tail(es))

\* The most recent line is form f with the index groups es and parsed into
\* the chain of indexing nodes.
ParsesIndexed(f, es) ==
    ParsedLine = f \o Groups(es) =>
        (last.tree = IndexChain(FormNode(f), es) /\ last.tree # NoExpr)

\* C9 (amended): a parenthesized expression and an identifier accept zero or
\* more trailing [ Expr ] groups, parsed into Binary nodes of the indexing
\* operator chained left to right; a number or vector literal accepts none:
\* a [ after it is the parse error "unexpected token after expression".
C9_IndexableOperands ==
    AfterDefiner =>
        \A k \in 0..MaxIndex : \A es \in IndexLists(k) :
            /\ \A f \in ParenForms \cup IdentForms : ParsesIndexed(f, es)
            /\ \A f \in LiteralForms :
                  (k > 0 /\ ParsedLine = f \o Groups(es)) =>
                      /\ last.kind = "panic"
                      /\ last.err = "unexpected token after expression"
                      /\ last.tree = NoExpr

\* C9 as stated: literals are indexable too.
C9_Original ==
    AfterDefiner =>
        \A k \in 0..MaxIndex : \A es \in IndexLists(k) :
            /\ \A f \in ParenForms \cup IdentForms : ParsesIndexed(f, es)
            /\ \A f \in LiteralForms :
                  (k > 0 /\ ParsedLine = f \o Groups(es)) =>
                      /\ last.tree # NoExpr
                      /\ last.tree.op = "[]"
                      /\ last.tree.r = <<RightNest(es[k])>>

\* x [ 0 ] [ 1 - x ]
C9_Witness ==
    /\ AfterDefiner
    /\ ParsedLine = <<Id("x"), LB, Num(0), RB, LB, Num(1), Op("-"), Id("x"), RB>>
    /\ last.tree = BinaryNode(BinaryNode(Leaf(vars["x"]), "[]", Leaf(IntV(0))), "[]",
                              BinaryNode(Leaf(IntV(1)), "-", Leaf(vars["x"])))

-----------------------------------------------------------------------------
(* Properties of the Config, checked under SpecConfig *)

\* C13: in every state of a Config the rational format is the scalar format
\* on both sides of a slash: RatFormat() = Format() + "/" + Format().
C13_RatFormatFromFormat == RatFormat = Format \o <<"/">> \o Format

=============================================================================
